---------------------------- MODULE Spec2Model ----------------------------
(***************************************************************************)
(* Barcode detection and rotation-angle extraction of the shipping-label   *)
(* reader: barcode_detect.py (get_barcode_contours and its stages,         *)
(* draw_all_contours) and detect_barcode_angle.py (get_angle).             *)
(*                                                                         *)
(* The scenario is a caller that holds one image object and calls          *)
(* get_angle(img) on it twice in succession.  Each statement of the two    *)
(* files that is reached by get_angle is one action.                       *)
(*                                                                         *)
(* OpenCV is not part of the repository.  Its operations are modelled by   *)
(* their contract at the level of connected foreground regions ("blobs"):  *)
(* an image is described by the blobs that the detection stages leave in   *)
(* the Candidate Mask of its pristine pixels (in the order in which        *)
(* cv2.findContours discovers them, each with the value cv2.contourArea    *)
(* and the angle cv2.minAreaRect report for its contour) and by the        *)
(* rectangle outlines that have been drawn over these pixels.  Angles are  *)
(* whole degrees.                                                          *)
(***************************************************************************)
EXTENDS Integers, Sequences, FiniteSets

VARIABLES
    img,        \* the caller's image object (the numpy array passed as img)
    call,       \* "none" | "first" | "second": the invocation of get_angle
    pc,         \* the statement get_angle (or its callee) executes next
    input,      \* the pixels get_barcode_contours read from img (line 123)
    img_temp,   \* img_temp of get_barcode_contours: the derived image
    contours,   \* contours of get_angle: the Ranked Boundary List
    idx,        \* idx of the loop of draw_all_contours (1-based here)
    rect,       \* rect of get_angle: the fitted minimal bounding rectangle
    ret,        \* how the current invocation ended
    stages,     \* the stages this invocation has executed, in order
    first       \* the first invocation's input, derived images and result

vars == <<img, call, pc, input, img_temp, contours, idx, rect, ret, stages, first>>

---------------------------------------------------------------------------
(* Bounds of the model *)

\* the largest number of blobs in the Candidate Mask of a pristine image
MaxRegions == 3
\* cv2.contourArea of a blob of a pristine image is in 1..MaxArea
MaxArea == 2
\* image width and height are in 0..MaxDim (0: a degenerate image)
MaxDim == 1

Areas == 1..MaxArea

\* cv2.minAreaRect's angle lies in [-90, 0) (detect_barcode_angle.py:27)
NativeAngles == -90..-1
\* the angles of the blobs of images with several blobs: both sides of the
\* threshold of detect_barcode_angle.py:28
SampleAngles == {-46, -45}

---------------------------------------------------------------------------
(* Images *)

Blobs(angles) == [area : Areas, angle : angles]

\* sequences of at most n elements of S
SeqUpTo(S, n) == UNION {[1..k -> S] : k \in 0..n}

\* the blob lists of the input images: any single blob, or up to MaxRegions
\* blobs with sampled angles
Scenes == SeqUpTo(Blobs(NativeAngles), 1) \cup SeqUpTo(Blobs(SampleAngles), MaxRegions)

Degenerate(im) == im.width = 0 \/ im.height = 0

\* the images an external loader hands to get_angle: nothing is drawn on
\* them, and an image without pixels has no blobs
Images ==
    {im \in [width : 0..MaxDim, height : 0..MaxDim, channels : {1, 3},
             blobs : Scenes, paint : SeqUpTo({"none"}, MaxRegions)] :
        /\ Len(im.paint) = Len(im.blobs)
        /\ Degenerate(im) => im.blobs = <<>>}

NoImage == [stage |-> "none"]
NoRect == [of |-> 0, angle |-> 0]
NoResult == [kind |-> "none"]
Returned(a) == [kind |-> "returned", angle |-> a]
Raised(e) == [kind |-> "raised", error |-> e]

---------------------------------------------------------------------------
(* OpenCV operations, by contract *)

\* cv2.cvtColor(img, cv2.COLOR_RGB2GRAY) of a drawn colour: the tuple's
\* first channel is weighted as red, 0.299 R + 0.587 G + 0.114 B, so
\* (0, 0, 255) becomes 29 and (0, 255, 0) becomes 150; -1 is "not drawn"
GrayOf(color) ==
    CASE color = "red" -> 29
      [] color = "green" -> 150
      [] OTHER -> -1

cvtColor(im) ==
    [stage |-> "gray", blobs |-> im.blobs,
     lines |-> [i \in 1..Len(im.paint) |-> GrayOf(im.paint[i])]]

\* cv2.findContours(mask, RETR_EXTERNAL, CHAIN_APPROX_SIMPLE): one contour
\* per blob of the mask, in discovery order; id is the discovery position
findContours(mask) ==
    [i \in 1..Len(mask.blobs) |->
        [id |-> i, area |-> mask.blobs[i].area, angle |-> mask.blobs[i].angle]]

contourArea(c) == c.area

\* cv2.minAreaRect(contour): only the angle, rect[2], is read
minAreaRect(c) == [of |-> c.id, angle |-> c.angle]

\* cv2.drawContours(img, [box], 0, color, 2): the outline of the contour's
\* box is written over the pixels of im
drawContours(im, c, color) == [im EXCEPT !.paint[c.id] = color]

---------------------------------------------------------------------------
(* The stages of barcode_detect.py *)

\* find_vertical_edges: Sobel in x, 3x3 blur, Otsu threshold.  The edge map
\* holds the vertical edges of the blobs' bars and of every drawn outline
\* (its grey level, 29 or 150, differs from the label around it).
find_vertical_edges(gray) ==
    [stage |-> "edges", blobs |-> gray.blobs,
     outlined |-> [i \in 1..Len(gray.lines) |-> gray.lines[i] >= 0]]

\* isolate_barcodes: closing with an 80x1 cross, opening with a 200x100
\* rectangle.  The result is the set of Candidate Masks OpenCV may produce:
\* the blobs of the pristine pixels, where the closing may fuse the edges of
\* an outline drawn around a blob into that blob, enlarging it.
isolate_barcodes(edges) ==
    LET n == Len(edges.blobs)
        fusable == {i \in 1..n : edges.outlined[i]}
    IN  {[stage |-> "mask",
          blobs |-> [i \in 1..n |->
                        IF i \in fused
                        THEN [edges.blobs[i] EXCEPT !.area = @ + 1]
                        ELSE edges.blobs[i]]] : fused \in SUBSET fusable}

\* sorted(cont, key=cv2.contourArea, reverse=True): Python's sort is stable,
\* also with reverse=True, so c goes behind every element whose key is not
\* smaller
RECURSIVE insert_desc(_, _)
insert_desc(c, s) ==
    IF s = <<>> THEN <<c>>
    ELSE IF contourArea(Head(s)) >= contourArea(c)
         THEN <<Head(s)>> \o insert_desc(c, Tail(s))
         ELSE <<c>> \o s

\* mutant: reverse=True left out, the list is ranked smallest first
RECURSIVE insert_asc(_, _)
insert_asc(c, s) ==
    IF s = <<>> THEN <<c>>
    ELSE IF contourArea(Head(s)) <= contourArea(c)
         THEN <<Head(s)>> \o insert_asc(c, Tail(s))
         ELSE <<c>> \o s

RECURSIVE sorted_asc(_)
sorted_asc(cont) ==
    IF cont = <<>> THEN <<>>
    ELSE insert_asc(cont[Len(cont)], sorted_asc(SubSeq(cont, 1, Len(cont) - 1)))

\* mutant: sorted(cont, key=cv2.contourArea)[::-1], an ascending sort
\* reversed afterwards, which also reverses the order among equal areas
Reverse(s) == [i \in 1..Len(s) |-> s[Len(s) + 1 - i]]

sorted_asc_reversed(cont) == Reverse(sorted_asc(cont))

RECURSIVE sorted_desc(_)
sorted_desc(cont) ==
    IF cont = <<>> THEN <<>>
    ELSE insert_desc(cont[Len(cont)], sorted_desc(SubSeq(cont, 1, Len(cont) - 1)))

\* mutant: a list that is never empty, a placeholder contour stands for
\* "nothing found"
id_and_rank_contours_sentinel(mask) ==
    IF findContours(mask) = <<>>
    THEN <<[id |-> 0, area |-> 0, angle |-> -90]>>
    ELSE sorted_desc(findContours(mask))

id_and_rank_contours(mask) == sorted_desc(findContours(mask))

\* draw_all_contours: idx == 0 (the first position, 1 here) is red
BoxColor(i) == IF i = 1 THEN "red" ELSE "green"

---------------------------------------------------------------------------
(* detect_barcode_angle.py *)

\* mutant: contours[-1]
smallest(cs) == cs[Len(cs)]

\* contours[0]
largest(cs) == cs[1]

\* mutant: the correction applied to every angle
fold_angle_always(angle) == angle + 90

\* mutant: the threshold itself is folded as well
fold_angle_inclusive(angle) == IF angle <= -45 THEN angle + 90 ELSE angle

\* if angle < -45: angle += 90
fold_angle(angle) == IF angle < -45 THEN angle + 90 ELSE angle

---------------------------------------------------------------------------
Init ==
    /\ img \in Images
    /\ call = "none"
    /\ pc = "idle"
    /\ input = NoImage
    /\ img_temp = NoImage
    /\ contours = <<>>
    /\ idx = 0
    /\ rect = NoRect
    /\ ret = NoResult
    /\ stages = <<>>
    /\ first = [input |-> NoImage, mask |-> NoImage, contours |-> <<>>, ret |-> NoResult]

\* the caller invokes get_angle(img): the first time, and a second time
\* once the first invocation has ended
Invoke ==
    /\ \/ pc = "idle" /\ call = "none"
       \/ pc = "done" /\ call = "first"
    /\ call' = IF call = "none" THEN "first" ELSE "second"
    /\ first' = IF call = "none" THEN first
                ELSE [input |-> input, mask |-> img_temp, contours |-> contours, ret |-> ret]
    /\ pc' = "cvtColor"
    /\ input' = NoImage
    /\ img_temp' = NoImage
    /\ contours' = <<>>
    /\ idx' = 0
    /\ rect' = NoRect
    /\ ret' = NoResult
    /\ stages' = <<>>
    /\ UNCHANGED img

\* barcode_detect.py:122-124, the first statements of get_barcode_contours,
\* called from detect_barcode_angle.py:20.  No check of the image precedes
\* cv2.cvtColor, which raises cv2.error for an image without pixels
\* (!_src.empty()) and for one that does not have 3 (or 4) channels.
CvtColor ==
    /\ pc = "cvtColor"
    /\ input' = img
    /\ stages' = Append(stages, "cvtColor")
    /\ IF Degenerate(img) \/ img.channels # 3
       THEN /\ ret' = Raised("cv2.error")
            /\ pc' = "done"
            /\ UNCHANGED img_temp
       ELSE /\ img_temp' = cvtColor(img)
            /\ pc' = "find_vertical_edges"
            /\ UNCHANGED ret
    /\ UNCHANGED <<img, call, contours, idx, rect, first>>

\* barcode_detect.py:125
FindVerticalEdges ==
    /\ pc = "find_vertical_edges"
    /\ img_temp' = find_vertical_edges(img_temp)
    /\ stages' = Append(stages, "find_vertical_edges")
    /\ pc' = "isolate_barcodes"
    /\ UNCHANGED <<img, call, input, contours, idx, rect, ret, first>>

\* barcode_detect.py:126
IsolateBarcodes ==
    /\ pc = "isolate_barcodes"
    /\ img_temp' \in isolate_barcodes(img_temp)
    /\ stages' = Append(stages, "isolate_barcodes")
    /\ pc' = "id_and_rank_contours"
    /\ UNCHANGED <<img, call, input, contours, idx, rect, ret, first>>

\* barcode_detect.py:127-129 and the return to detect_barcode_angle.py:20;
\* get_angle then calls draw_all_contours(img, contours) (line 21)
IdAndRankContours ==
    /\ pc = "id_and_rank_contours"
    /\ contours' = id_and_rank_contours(img_temp)
    /\ stages' = Append(stages, "id_and_rank_contours")
    /\ idx' = 1
    /\ pc' = "draw_all_contours"
    /\ UNCHANGED <<img, call, input, img_temp, rect, ret, first>>

\* barcode_detect.py:141-148, one iteration of the loop: the box of the
\* contour at position idx is drawn into img itself (cv2.drawContours writes
\* into the array it is given), red for the first and green for the others
DrawContour ==
    /\ pc = "draw_all_contours"
    /\ idx <= Len(contours)
    /\ img' = drawContours(img, contours[idx], BoxColor(idx))
    /\ idx' = idx + 1
    /\ UNCHANGED <<call, pc, input, img_temp, contours, rect, ret, stages, first>>

\* barcode_detect.py:141, the loop is exhausted: draw_all_contours returns
\* (None) to detect_barcode_angle.py:21
DrawReturn ==
    /\ pc = "draw_all_contours"
    /\ idx > Len(contours)
    /\ pc' = "minAreaRect"
    /\ UNCHANGED <<img, call, input, img_temp, contours, idx, rect, ret, stages, first>>

\* detect_barcode_angle.py:24-25: contours[0] of an empty list raises
\* IndexError, which nothing catches
MinAreaRect ==
    /\ pc = "minAreaRect"
    /\ IF contours = <<>>
       THEN /\ ret' = Raised("IndexError")
            /\ pc' = "done"
            /\ UNCHANGED rect
       ELSE /\ rect' = minAreaRect(largest(contours))
            /\ pc' = "fold"
            /\ UNCHANGED ret
    /\ UNCHANGED <<img, call, input, img_temp, contours, idx, stages, first>>

\* detect_barcode_angle.py:27-31
FoldAndReturn ==
    /\ pc = "fold"
    /\ ret' = Returned(fold_angle(rect.angle))
    /\ pc' = "done"
    /\ UNCHANGED <<img, call, input, img_temp, contours, idx, rect, stages, first>>

Next ==
    \/ Invoke
    \/ CvtColor
    \/ FindVerticalEdges
    \/ IsolateBarcodes
    \/ IdAndRankContours
    \/ DrawContour
    \/ DrawReturn
    \/ MinAreaRect
    \/ FoldAndReturn

Spec == Init /\ [][Next]_vars

---------------------------------------------------------------------------
(* Properties *)

Range(s) == {s[i] : i \in 1..Len(s)}

\* this invocation has run id_and_rank_contours: contours is its result for
\* the Candidate Mask img_temp
Ranked == \E i \in 1..Len(stages) : stages[i] = "id_and_rank_contours"

ReturnedAngle == pc = "done" /\ ret.kind = "returned"

\* C1: for every native angle a in [-90, 0) of the fitted rectangle,
\* get_angle returns a + 90 when a < -45 and a itself otherwise, and the
\* returned angle lies in [-45, 45).
C1_FoldedIntoRange ==
    ReturnedAngle =>
        /\ rect.angle \in NativeAngles
        /\ rect.angle < -45 => ret.angle = rect.angle + 90
        /\ rect.angle >= -45 => ret.angle = rect.angle
        /\ ret.angle >= -45 /\ ret.angle < 45

C1_Witness == ReturnedAngle /\ rect.angle = -46 /\ ret.angle = 44

\* C2, as claimed: a native angle of exactly -45 degrees is returned as 0.
C2_ThresholdGivesZero == (ReturnedAngle /\ rect.angle = -45) => ret.angle = 0

\* C2, amended: a native angle of exactly -45 degrees is not folded, it is
\* returned unchanged as -45.
C2_ThresholdUnchanged == (ReturnedAngle /\ rect.angle = -45) => ret.angle = -45

C2_Witness == ReturnedAngle /\ rect.angle = -45 /\ call = "first"

\* C3: whenever the pipeline yields an empty Ranked Boundary List, get_angle
\* fails with NoBarcodeFound, with no other error and without an angle.
C3_NoBarcodeFound ==
    (pc = "done" /\ Ranked /\ contours = <<>>) => ret = Raised("NoBarcodeFound")

\* C4: for an image of zero width or zero height the pipeline fails with
\* InvalidImage before find_vertical_edges or isolate_barcodes is executed.
C4_InvalidImage ==
    (pc = "done" /\ Degenerate(img)) =>
        /\ ret = Raised("InvalidImage")
        /\ "find_vertical_edges" \notin Range(stages)
        /\ "isolate_barcodes" \notin Range(stages)

C6_SecondCallIdentical ==
    (call = "second" /\ pc = "done") =>
        /\ input = first.input
        /\ img_temp = first.mask
        /\ ret = first.ret

\* C7: a non-empty list returned by id_and_rank_contours is a permutation of
\* the extracted boundaries, and its areas are non-increasing by position.
C7_PermutationNonIncreasing ==
    (Ranked /\ contours # <<>>) =>
        /\ Len(contours) = Len(findContours(img_temp))
        /\ Range(contours) = Range(findContours(img_temp))
        /\ \A i \in 1..(Len(contours) - 1) :
              contourArea(contours[i]) >= contourArea(contours[i + 1])

C7_Witness ==
    /\ Ranked
    /\ Len(contours) = 3
    /\ contours[1].id = 3
    /\ contourArea(contours[1]) > contourArea(contours[3])

\* C8: the rectangle get_angle fits is that of the first boundary of the
\* ranked list, and no detected boundary has a larger area than it.
C8_FitsLargest ==
    (pc = "fold" \/ ReturnedAngle) =>
        /\ rect = minAreaRect(contours[1])
        /\ \A c \in Range(findContours(img_temp)) :
              contourArea(findContours(img_temp)[rect.of]) >= contourArea(c)

C8_Witness ==
    /\ pc = "fold"
    /\ Len(contours) = 2
    /\ rect.of = 2
    /\ contourArea(contours[1]) > contourArea(contours[2])

\* C9: boundaries of exactly equal area keep the order in which contour
\* extraction discovered them, and identical masks are ranked identically.
C9_StableDeterministic ==
    Ranked =>
        /\ \A i, j \in 1..Len(contours) :
              (i < j /\ contourArea(contours[i]) = contourArea(contours[j]))
                  => contours[i].id < contours[j].id
        /\ (call = "second" /\ img_temp = first.mask) => contours = first.contours

C9_Witness ==
    /\ Ranked
    /\ call = "second"
    /\ img_temp = first.mask
    /\ Len(contours) = 3
    /\ contours[1].id = 2
    /\ contourArea(contours[2]) = contourArea(contours[3])

\* C10: for a Candidate Mask without foreground regions id_and_rank_contours
\* and get_barcode_contours return the empty list and raise nothing: an
\* error of the invocation, if any, comes after the list was returned.
C10_EmptyMaskEmptyList ==
    (img_temp.stage = "mask" /\ img_temp.blobs = <<>>) =>
        /\ Ranked => contours = <<>>
        /\ pc = "draw_all_contours" => ret = NoResult
        /\ ret.kind = "raised" => Ranked

C10_Witness ==
    /\ pc = "draw_all_contours"
    /\ img_temp.stage = "mask"
    /\ img_temp.blobs = <<>>
    /\ contours = <<>>
    /\ ret = NoResult
===========================================================================
